---- MODULE Spec2Model ----
(***************************************************************************)
(* Model of the ImageDepth pipeline (OpticALLY/Python/ImageDepth.py):      *)
(* load_calibration -> create_undistortion_lookup -> load_image ->         *)
(* load_depth, as run by ImageDepth.__init__.                              *)
(*                                                                         *)
(* Numbers.  numpy floats are held in fixed point:                         *)
(*   - pixel coordinates, the intrinsic matrix, the radial table deltas    *)
(*     and the map entries in units of 1/Sub pixel;                        *)
(*   - depths, camera-space coordinates, min_depth and max_depth in        *)
(*     tenths of the source's depth unit (0.1 is 1, 0.5 is 5, -1000 is     *)
(*     -10000);                                                            *)
(*   - colours in units of 1/255, so that dividing a byte by 255.0 is      *)
(*     exact;                                                              *)
(*   - the IEEE not-a-number is the token NaN, which every comparison      *)
(*     rejects and every arithmetic operation propagates.                  *)
(* An attribute the code has not assigned yet is the empty sequence.       *)
(* cv is cv2 (OpenCV): remap with INTER_LINEAR and the default constant    *)
(* border 0.                                                               *)
(***************************************************************************)
EXTENDS Integers, Sequences, FiniteSets, TLC

\* ------------------------------------------------------------------ bounds
MaxWidth == 2
MaxHeight == 2
MaxTable == 2
Sub == 4

\* ------------------------------------------------------- program constants
DefaultMinDepth == 1
DefaultMaxDepth == 5
SentinelDepth == -10000
MaskValid == 255
MaskInvalid == 0
BorderValue == 0

NaN == -(2 ^ 30)

IsNaN(v) == v = NaN

\* a / b of floats, held in the units of a (b # 0), rounded down
Div(a, b) == IF b > 0 THEN a \div b ELSE (-a) \div (-b)

\* a / b rounded to the nearest unit (b > 0)
RoundDiv(a, b) == (2 * a + b) \div (2 * b)

RECURSIVE SqrtFrom(_, _)
SqrtFrom(n, k) == IF (k + 1) * (k + 1) > n THEN k ELSE SqrtFrom(n, k + 1)

\* np.sqrt, rounded down to the unit
Sqrt(n) == SqrtFrom(n, 0)

RECURSIVE MaxOf(_, _)
MaxOf(s, i) ==
    IF i = Len(s) THEN s[i]
    ELSE LET m == MaxOf(s, i + 1) IN IF s[i] > m THEN s[i] ELSE m

\* ------------------------------------------------------------ pixel grid
PixelX(i, w) == (i - 1) % w
PixelY(i, w) == (i - 1) \div w
PixelAt(x, y, w) == y * w + x + 1

\* ----------------------------------------------------- calibration record
RequiredKeys ==
    {"lensDistortionLookup", "inverseLensDistortionLookup", "intrinsic",
     "intrinsicReferenceDimensionWidth"}

\* struct.unpack(f'<{len(b)//4}f', b): fails unless len(b) = 4 * (len(b)//4)
UnpackFails(nbytes) == 4 * (nbytes \div 4) # nbytes

\* the floats struct.unpack returns: the first len(b)//4 of the buffer
Unpack(nbytes, floats) == SubSeq(floats, 1, nbytes \div 4)

\* np.array(m).reshape((3, 3)).transpose(), flat row-major
Transpose(m) == [k \in 1..9 |-> m[3 * ((k - 1) % 3) + ((k - 1) \div 3) + 1]]

\* intrinsic[0,0], [1,1], [0,2], [1,2] *= width / referenceWidth
ScaleIntrinsic(m, w, ref) ==
    [k \in 1..9 |-> IF k \in {1, 5, 3, 6} THEN Div(m[k] * w, ref) ELSE m[k]]

Fx(m) == m[1]
Fy(m) == m[5]
Cx(m) == m[3]
Cy(m) == m[6]

\* ------------------------------------------- create_undistortion_lookup
\* resolution of the normalised radius: units per 1.0
NormUnit == Sub * Sub

\* xy -= center: pixel i relative to the principal point, per axis
CenteredX(i, w, m) == PixelX(i, w) * Sub - Cx(m)
CenteredY(i, w, m) == PixelY(i, w) * Sub - Cy(m)

\* r = np.sqrt(xy[:, 0]**2 + xy[:, 1]**2)
Radius(w, h, m) ==
    [i \in 1..(w * h) |->
        Sqrt(CenteredX(i, w, m) * CenteredX(i, w, m)
             + CenteredY(i, w, m) * CenteredY(i, w, m))]

\* norm_r = r / max_r: numpy divides 0.0 by 0.0 to nan (a warning, no exception)
NormR(r, max_r) == IF max_r = 0 THEN NaN ELSE Div(r * NormUnit, max_r)

\* np.interp(t, np.arange(num), table), t in units of 1/NormUnit
Interp(t, table) ==
    LET num == Len(table)
        k == t \div NormUnit
        frac == t % NormUnit
    IN  IF IsNaN(t) THEN NaN
        ELSE IF t <= 0 THEN table[1]
        ELSE IF k >= num - 1 THEN table[num]
        ELSE table[k + 1] + Div((table[k + 2] - table[k + 1]) * frac, NormUnit)

\* scale = 1.0 + np.interp(norm_r * num, ...)
RadialScale(norm_r, table) ==
    LET delta == Interp(IF IsNaN(norm_r) THEN NaN ELSE norm_r * Len(table), table)
    IN  IF IsNaN(delta) THEN NaN ELSE Sub + delta

\* new_xy = xy * scale + center, one axis
NewCoord(d, scale, c) == IF IsNaN(scale) THEN NaN ELSE Div(d * scale, Sub) + c

UndistortionScale(w, h, m, table) ==
    LET r == Radius(w, h, m)
        max_r == MaxOf(r, 1)
    IN  [i \in 1..(w * h) |-> RadialScale(NormR(r[i], max_r), table)]

LookupX(w, h, m, table) ==
    LET scale == UndistortionScale(w, h, m, table)
    IN  [i \in 1..(w * h) |-> NewCoord(CenteredX(i, w, m), scale[i], Cx(m))]

LookupY(w, h, m, table) ==
    LET scale == UndistortionScale(w, h, m, table)
    IN  [i \in 1..(w * h) |-> NewCoord(CenteredY(i, w, m), scale[i], Cy(m))]

\* ------------------------------------------------------------- cv.remap
\* one source sample; outside the source the constant border
Tap(src, x, y, w, h) ==
    IF x < 0 \/ x >= w \/ y < 0 \/ y >= h THEN BorderValue
    ELSE src[PixelAt(x, y, w)]

\* INTER_LINEAR at the map coordinate (mx, my)
Bilinear(src, w, h, mx, my) ==
    LET x0 == mx \div Sub
        y0 == my \div Sub
        ax == mx % Sub
        ay == my % Sub
        t00 == Tap(src, x0, y0, w, h)
        t10 == Tap(src, x0 + 1, y0, w, h)
        t01 == Tap(src, x0, y0 + 1, w, h)
        t11 == Tap(src, x0 + 1, y0 + 1, w, h)
    IN  IF IsNaN(t00) \/ IsNaN(t10) \/ IsNaN(t01) \/ IsNaN(t11) THEN NaN
        ELSE RoundDiv((Sub - ax) * (Sub - ay) * t00 + ax * (Sub - ay) * t10
                      + (Sub - ax) * ay * t01 + ax * ay * t11, Sub * Sub)

\* what a not-a-number map coordinate samples is left to the build: the
\* float-to-int conversion yields either a far out-of-range index (the
\* border) or index 0 (the first pixel)
NaNSamples == {0, 1}

\* the samplings a build can make of this map: one unless an entry is not a number
Samplings(mx, my) ==
    IF \E i \in 1..Len(mx) : IsNaN(mx[i]) \/ IsNaN(my[i]) THEN NaNSamples ELSE {0}

SampleNaN(src, pick) == IF pick = 0 THEN BorderValue ELSE src[pick]

\* cv.remap(src, map_x, map_y, cv.INTER_LINEAR) of one channel
Remap(src, w, h, mx, my, pick) ==
    [i \in 1..(w * h) |->
        IF IsNaN(mx[i]) \/ IsNaN(my[i]) THEN SampleNaN(src, pick)
        ELSE Bilinear(src, w, h, mx[i], my[i])]

\* ----------------------------------------------- load_image, process_image
\* img[:, :, :3][:, :, [2, 1, 0]]: drop the fourth channel, swap red and blue
SwapRB(file) == [i \in 1..Len(file) |-> <<file[i][3], file[i][2], file[i][1]>>]

\* (srgb_to_linear(b / 255.0) * 255).astype('uint8') for the bytes of Palette
SrgbToLinearByte(b) ==
    CASE b = 0 -> 0
      [] b = 128 -> 55
      [] b = 255 -> 255

Channel(img, c) == [i \in 1..Len(img) |-> img[i][c]]

UndistortImage(file, w, h, mx, my, pick) ==
    LET img == SwapRB(file)
        lin == [i \in 1..Len(img) |-> [c \in 1..3 |-> SrgbToLinearByte(img[i][c])]]
        out == [c \in 1..3 |-> Remap(Channel(lin, c), w, h, mx, my, pick)]
    IN  [i \in 1..(w * h) |-> <<out[1][i], out[2][i], out[3][i]>>]

\* ----------------------------------------------------- load_depth, project3d
\* the validity rule with the lower end of the range let in
IsValidDepth_Inclusive(d, lo, hi) == ~IsNaN(d) /\ d >= lo /\ d < hi

\* no_nan & depth1 & depth2
IsValidDepth(d, lo, hi) == ~IsNaN(d) /\ d > lo /\ d < hi

ValidIdx(depth, lo, hi) == [i \in 1..Len(depth) |-> IsValidDepth(depth[i], lo, hi)]

Indices(n) == [i \in 1..n |-> i]

\* np.where(idx): the selected positions, ascending
Where(idx) == SelectSeq(Indices(Len(idx)), LAMBDA i : idx[i])

Take(s, where) == [k \in 1..Len(where) |-> s[where[k]]]

\* the mask with its two byte values exchanged
MaskOf_Inverted(idx) == [i \in 1..Len(idx) |-> IF idx[i] THEN MaskInvalid ELSE MaskValid]

MaskOf(idx) == [i \in 1..Len(idx) |-> IF idx[i] THEN MaskValid ELSE MaskInvalid]

\* the overwrite with 0 in place of the sentinel
MaskDepth_ZeroSentinel(depth, idx) == [i \in 1..Len(depth) |-> IF idx[i] THEN depth[i] ELSE 0]

MaskDepth(depth, idx) == [i \in 1..Len(depth) |-> IF idx[i] THEN depth[i] ELSE SentinelDepth]

\* the point filter without its lower end
GoodDepth_NoLowerEnd(d, lo, hi) == d < hi /\ ~IsNaN(d)

\* good_idx of project3d: (depths > min_depth) & (depths < max_depth)
GoodDepth(d, lo, hi) == d > lo /\ d < hi /\ ~IsNaN(d)

\* pts -= (cx, cy); pts /= (fx, fy); pts *= depths; hstack((pts, depths))
Project(i, d, w, m) ==
    <<Div(CenteredX(i, w, m) * d, Fx(m)), Div(CenteredY(i, w, m) * d, Fy(m)), d>>

\* project3d(pts): the projected points and good_idx
Project3dPoints(pts, dmu, w, m) == [k \in 1..Len(pts) |-> Project(pts[k], dmu[pts[k]], w, m)]

Project3dGood(pts, dmu, lo, hi) ==
    SelectSeq(Indices(Len(pts)), LAMBDA k : GoodDepth(dmu[pts[k]], lo, hi))

\* ------------------------------------------------------------ the inputs
MaxDepthPattern == 3

Min(a, b) == IF a < b THEN a ELSE b

\* depth samples: not-a-number, the two range ends and a depth inside the range
DepthValues == {NaN, DefaultMinDepth, 3, DefaultMaxDepth}

\* (min_depth, max_depth): the defaults, and a range that holds the sentinel
DepthConfigs == {<<DefaultMinDepth, DefaultMaxDepth>>, <<2 * SentinelDepth, DefaultMaxDepth>>}

\* the float32 buffers of n samples, repeating a pattern of at most MaxDepthPattern
DepthFiles(n) ==
    {[i \in 1..n |-> pat[((i - 1) % Len(pat)) + 1]] :
        pat \in [1..Min(n, MaxDepthPattern) -> DepthValues]}

Palette == <<255, 128, 0>>

\* the 4-channel byte buffers of n pixels, pairwise different in colour
ImageFiles(n) ==
    {[i \in 1..n |->
        <<Palette[((i + k) % 3) + 1], Palette[(((i - 1) \div 3) % 3) + 1],
          Palette[((i + 2 * k) % 3) + 1], 255>>] : k \in {0, 1}}

Deltas == {0, -(Sub \div 2)}

Tables == UNION {[1..n -> Deltas] : n \in 1..MaxTable}

Focal == 2 * Sub

\* the "intrinsic" field: 9 floats whose transpose is the intrinsic matrix
IntrinsicField(cx, cy) == <<Focal, 0, 0, 0, Focal, 0, cx * Sub, cy * Sub, Sub>>

Record(keys, fwdBytes, invBytes, inv, cx, cy, ref) ==
    [keys |-> keys, fwdBytes |-> fwdBytes, invBytes |-> invBytes, fwd |-> <<0>>,
     inv |-> inv, intrinsic |-> IntrinsicField(cx, cy), refWidth |-> ref]

\* well-formed records at scale 1, every principal point and table
GoodRecords(w) ==
    {Record(RequiredKeys, 4, 4 * Len(t), t, cx, cy, w) :
        t \in Tables, cx \in {0, 1}, cy \in {0, 1}}

\* records at other reference widths: scale 1/2, scale -1, and width 0
ScaledRecords(w) ==
    {Record(RequiredKeys, 4, 4 * Len(t), t, 1, 1, ref) :
        t \in {<<0>>, <<-(Sub \div 2)>>}, ref \in {2 * w, -w, 0}}

\* records that lack a field or whose tables are not whole float32 arrays
MalformedRecords(w) ==
    {Record(RequiredKeys \ {k}, 4, 4, <<0>>, 1, 1, w) : k \in RequiredKeys}
    \cup {Record(RequiredKeys, 5, 4, <<0>>, 1, 1, w),
          Record(RequiredKeys, 4, 6, <<0>>, 1, 1, w),
          Record(RequiredKeys, 4, 3, <<0>>, 1, 1, w)}

CalibrationFiles(w) == GoodRecords(w) \cup ScaledRecords(w) \cup MalformedRecords(w)

\* ---------------------------------------------------------------- the state
VARIABLES
    pc,                          \* the call __init__ makes next
    raised,                      \* the exception that ended the run, or "none"
    width, height, min_depth, max_depth,
    calibration_file, image_file, depth_file,
    lensDistortionLookup, inverseLensDistortionLookup, intrinsic, scale,
    map_x, map_y, map_writes,
    img_undistort, mask, depth_map, depth_map_undistort,
    pcd_points, pcd_colors,
    pcd_pixels                   \* xy[good_idx]: the pixel each emitted point was projected from

args == <<width, height, min_depth, max_depth, calibration_file>>
calib == <<lensDistortionLookup, inverseLensDistortionLookup, intrinsic, scale>>
maps == <<map_x, map_y, map_writes>>
image == <<image_file, img_undistort>>
depthv ==
    <<depth_file, mask, depth_map, depth_map_undistort, pcd_points, pcd_colors, pcd_pixels>>
vars == <<pc, raised, args, calib, maps, image, depthv>>

\* ImageDepth.__init__ up to its first call
Init ==
    /\ pc = "load_calibration"
    /\ raised = "none"
    /\ width \in 1..MaxWidth
    /\ height \in 1..MaxHeight
    /\ \E cfg \in DepthConfigs : min_depth = cfg[1] /\ max_depth = cfg[2]
    /\ calibration_file \in CalibrationFiles(width)
    /\ image_file = <<>>
    /\ depth_file = <<>>
    /\ lensDistortionLookup = <<>>
    /\ inverseLensDistortionLookup = <<>>
    /\ intrinsic = <<>>
    /\ scale = <<>>
    /\ map_x = <<>>
    /\ map_y = <<>>
    /\ map_writes = 0
    /\ img_undistort = <<>>
    /\ mask = <<>>
    /\ depth_map = <<>>
    /\ depth_map_undistort = <<>>
    /\ pcd_points = <<>>
    /\ pcd_colors = <<>>
    /\ pcd_pixels = <<>>

\* the exception load_calibration raises before it assigns anything, or "none"
DecodeError(rec) ==
    IF "lensDistortionLookup" \notin rec.keys THEN "KeyError"
    ELSE IF "inverseLensDistortionLookup" \notin rec.keys THEN "KeyError"
    ELSE IF UnpackFails(rec.fwdBytes) THEN "struct.error"
    ELSE IF UnpackFails(rec.invBytes) THEN "struct.error"
    ELSE "none"

\* the exception load_calibration raises after it assigned the intrinsic matrix
ScaleError(rec) ==
    IF "intrinsicReferenceDimensionWidth" \notin rec.keys THEN "KeyError"
    ELSE IF rec.refWidth = 0 THEN "ZeroDivisionError"
    ELSE "none"

load_calibration ==
    /\ pc = "load_calibration"
    /\ LET rec == calibration_file IN
        IF DecodeError(rec) # "none" THEN
            /\ raised' = DecodeError(rec)
            /\ pc' = "failed"
            /\ UNCHANGED calib
        ELSE
            /\ lensDistortionLookup' = Unpack(rec.fwdBytes, rec.fwd)
            /\ inverseLensDistortionLookup' = Unpack(rec.invBytes, rec.inv)
            /\ IF "intrinsic" \notin rec.keys THEN
                   /\ raised' = "KeyError"
                   /\ pc' = "failed"
                   /\ UNCHANGED <<intrinsic, scale>>
               ELSE IF ScaleError(rec) # "none" THEN
                   /\ intrinsic' = Transpose(rec.intrinsic)
                   /\ raised' = ScaleError(rec)
                   /\ pc' = "failed"
                   /\ UNCHANGED scale
               ELSE
                   /\ intrinsic' = ScaleIntrinsic(Transpose(rec.intrinsic), width, rec.refWidth)
                   /\ scale' = Div(width * Sub, rec.refWidth)
                   /\ pc' = "create_undistortion_lookup"
                   /\ UNCHANGED raised
    /\ UNCHANGED <<args, maps, image, depthv>>

create_undistortion_lookup ==
    /\ pc = "create_undistortion_lookup"
    /\ map_x' = LookupX(width, height, intrinsic, inverseLensDistortionLookup)
    /\ map_y' = LookupY(width, height, intrinsic, inverseLensDistortionLookup)
    /\ map_writes' = map_writes + 1
    /\ pc' = "load_image"
    /\ UNCHANGED <<raised, args, calib, image, depthv>>

\* load_image building the undistortion map again before it remaps
load_image_RebuildsMap ==
    /\ pc = "load_image"
    /\ map_x' = LookupX(width, height, intrinsic, inverseLensDistortionLookup)
    /\ map_y' = LookupY(width, height, intrinsic, inverseLensDistortionLookup)
    /\ map_writes' = map_writes + 1
    /\ \E file \in ImageFiles(width * height), pick \in Samplings(map_x, map_y) :
        /\ image_file' = file
        /\ img_undistort' = UndistortImage(file, width, height, map_x, map_y, pick)
    /\ pc' = "load_depth"
    /\ UNCHANGED <<raised, args, calib, depthv>>

\* load_image, which ends in process_image
load_image ==
    /\ pc = "load_image"
    /\ \E file \in ImageFiles(width * height), pick \in Samplings(map_x, map_y) :
        /\ image_file' = file
        /\ img_undistort' = UndistortImage(file, width, height, map_x, map_y, pick)
    /\ pc' = "load_depth"
    /\ UNCHANGED <<raised, args, calib, maps, depthv>>

\* load_depth, with the undistort_depth_map and project3d calls it makes
load_depth ==
    /\ pc = "load_depth"
    /\ \E file \in DepthFiles(width * height), pick \in Samplings(map_x, map_y) :
        LET idx == ValidIdx(file, min_depth, max_depth)
            xy == Where(idx)
            rgb == Take(img_undistort, xy)
            masked == MaskDepth(file, idx)
            dmu == Remap(masked, width, height, map_x, map_y, pick)
            xyz == Project3dPoints(xy, dmu, width, intrinsic)
            good_idx == Project3dGood(xy, dmu, min_depth, max_depth)
        IN  /\ depth_file' = file
            /\ mask' = MaskOf(idx)
            /\ depth_map' = masked
            /\ depth_map_undistort' = dmu
            /\ pcd_points' = Take(xyz, good_idx)
            /\ pcd_colors' = Take(rgb, good_idx)
            /\ pcd_pixels' = Take(xy, good_idx)
    /\ pc' = "done"
    /\ UNCHANGED <<raised, args, calib, maps, image>>

Next == load_calibration \/ create_undistortion_lookup \/ load_image \/ load_depth

Spec == Init /\ [][Next]_vars

\* ------------------------------------------------------------ properties
Pixels == 1..(width * height)

MapBuilt == pc \in {"load_image", "load_depth", "done"}

\* the validity rule as the specification words it
SpecValid(d) == d # NaN /\ min_depth < d /\ d < max_depth

\* C1: after load_depth every pixel whose raw depth is a number strictly
\* between min_depth and max_depth has mask 255 and keeps its depth, and every
\* other pixel has mask 0 and the depth -1000.
C1_DepthValidation ==
    pc = "done" =>
        \A i \in Pixels :
            /\ SpecValid(depth_file[i]) => mask[i] = 255 /\ depth_map[i] = depth_file[i]
            /\ ~SpecValid(depth_file[i]) => mask[i] = 0 /\ depth_map[i] = SentinelDepth

\* C1 witness: a buffer with a valid depth, a not-a-number and a depth equal
\* to each end of the range has been validated.
C1_Witness ==
    /\ pc = "done"
    /\ \E i, j, k \in Pixels :
        /\ mask[i] = 255
        /\ depth_file[j] = NaN /\ mask[j] = 0
        /\ depth_file[k] \in {min_depth, max_depth} /\ depth_map[k] = SentinelDepth

\* the raw depth buffer resampled through the undistortion map
UndistortedRaw == Remap(depth_file, width, height, map_x, map_y, 0)

MapIsNumeric == \A i \in 1..Len(map_x) : map_x[i] # NaN /\ map_y[i] # NaN

\* C2: the validity mask and the sentinel overwrite are decided on the
\* undistorted depth: a pixel has mask 255 iff the raw depth remapped through
\* the map is valid there, and the undistorted buffer holds -1000 exactly at
\* the other pixels.
C2_ValidatedAfterRemap ==
    (pc = "done" /\ MapIsNumeric) =>
        \A i \in Pixels :
            /\ mask[i] = 255 <=> SpecValid(UndistortedRaw[i])
            /\ depth_map_undistort[i] =
                  IF SpecValid(UndistortedRaw[i]) THEN UndistortedRaw[i] ELSE SentinelDepth

StrictlyIncreasing(s) == \A k \in 1..(Len(s) - 1) : s[k] < s[k + 1]

\* C3: positions and colours are equally long; entry k of both comes from one
\* pixel whose undistorted depth d is strictly inside the range, the position
\* being ((px - cx) / fx * d, (py - cy) / fy * d, d) and the colour the
\* undistorted image pixel over 255; the pixels come in row-major order.
C3_BackProjection ==
    pc = "done" =>
        /\ Len(pcd_points) = Len(pcd_colors)
        /\ Len(pcd_pixels) = Len(pcd_points)
        /\ StrictlyIncreasing(pcd_pixels)
        /\ \A k \in 1..Len(pcd_points) :
            LET p == pcd_pixels[k]
                d == depth_map_undistort[p]
                px == ((p - 1) % width) * Sub
                py == ((p - 1) \div width) * Sub
            IN  /\ p \in Pixels
                /\ min_depth < d /\ d < max_depth
                /\ pcd_points[k] =
                      <<Div((px - intrinsic[3]) * d, intrinsic[1]),
                        Div((py - intrinsic[6]) * d, intrinsic[5]), d>>
                /\ pcd_colors[k] = img_undistort[p]

\* C3 witness: two points were emitted and a pixel that passed the raw check
\* was dropped because its undistorted depth is out of range.
C3_Witness ==
    /\ pc = "done"
    /\ Len(pcd_points) >= 2
    /\ \E i \in Pixels :
        /\ mask[i] = 255
        /\ ~(min_depth < depth_map_undistort[i] /\ depth_map_undistort[i] < max_depth)
        /\ \A k \in 1..Len(pcd_pixels) : pcd_pixels[k] # i

MalformedCalibration ==
    \/ UnpackFails(calibration_file.fwdBytes)
    \/ UnpackFails(calibration_file.invBytes)
    \/ calibration_file.keys # RequiredKeys
    \/ calibration_file.refWidth <= 0

\* C4: a calibration whose table byte length is not a multiple of 4, that
\* lacks a field or whose reference width is <= 0 ends load_calibration with an
\* error, and no map is ever assigned.
C4_CalibrationErrors ==
    MalformedCalibration =>
        /\ pc # "load_calibration" => pc = "failed" /\ raised # "none"
        /\ map_writes = 0 /\ map_x = <<>> /\ map_y = <<>>

PrincipalPixels ==
    {i \in Pixels : PixelX(i, width) * Sub = intrinsic[3] /\ PixelY(i, width) * Sub = intrinsic[6]}

\* C5: when the principal point is an integer pixel of the grid, the map sends
\* that pixel to itself, for every inverse distortion table.
C5_PrincipalPointFixed ==
    MapBuilt =>
        \A i \in PrincipalPixels : map_x[i] = intrinsic[3] /\ map_y[i] = intrinsic[6]

\* C6: when every output pixel is the principal point (maximum radius 0) the
\* map entries are numbers, not NaN.
C6_ZeroMaxRadius ==
    (MapBuilt /\ PrincipalPixels = Pixels) =>
        \A i \in Pixels : map_x[i] # NaN /\ map_y[i] # NaN

ZeroTable == \A k \in 1..Len(inverseLensDistortionLookup) : inverseLensDistortionLookup[k] = 0

\* C7: with target width equal to reference width and an inverse table of
\* zero deltas only, the map is the identity at every pixel.
C7_IdentityMap ==
    (MapBuilt /\ calibration_file.refWidth = width /\ ZeroTable) =>
        \A i \in Pixels :
            /\ map_x[i] = PixelX(i, width) * Sub
            /\ map_y[i] = PixelY(i, width) * Sub

NoValidPixel == \A i \in Pixels : ~SpecValid(depth_file[i])

Revalidated(i) == SpecValid(depth_map[i])

SecondPassSame ==
    \A i \in Pixels :
        /\ mask[i] = 255 <=> Revalidated(i)
        /\ depth_map[i] = IF Revalidated(i) THEN depth_map[i] ELSE SentinelDepth

\* C9 as claimed: for every (min_depth, max_depth), validating the masked
\* buffer again gives the same mask and leaves the buffer unchanged.
C9_Idempotent == pc = "done" => SecondPassSame

SentinelOutOfRange == ~(min_depth < SentinelDepth /\ SentinelDepth < max_depth)

\* C9 amended: whenever the sentinel -1000 is not strictly between min_depth
\* and max_depth, validating the masked buffer again gives the same mask and
\* leaves the buffer unchanged.
C9_IdempotentOutOfRange == (pc = "done" /\ SentinelOutOfRange) => SecondPassSame

\* C9 witness: a masked buffer with a kept and an overwritten sample, under a
\* range that excludes the sentinel.
C9_Witness ==
    /\ pc = "done"
    /\ SentinelOutOfRange
    /\ \E i, j \in Pixels : mask[i] = 255 /\ depth_map[j] = SentinelDepth

\* C10: the map is assigned once, by create_undistortion_lookup after
\* load_calibration and before any remap; both remaps read that map; no later
\* stage changes map_x, map_y or the intrinsic matrix.
C10_MapBuiltOnce ==
    /\ [](/\ map_writes = (IF MapBuilt THEN 1 ELSE 0)
          /\ (img_undistort # <<>> \/ depth_map_undistort # <<>>) => map_writes = 1)
    /\ [][/\ map_writes' # map_writes =>
                pc = "create_undistortion_lookup" /\ intrinsic # <<>> /\ map_writes = 0
          /\ pc \in {"load_image", "load_depth"} =>
                map_x' = map_x /\ map_y' = map_y /\ intrinsic' = intrinsic
          /\ pc = "load_image" =>
                \E pick \in Samplings(map_x, map_y) :
                    img_undistort' =
                        UndistortImage(image_file', width, height, map_x, map_y, pick)
          /\ pc = "load_depth" =>
                \E pick \in Samplings(map_x, map_y) :
                    depth_map_undistort' =
                        Remap(depth_map', width, height, map_x, map_y, pick)]_vars

\* C10 witness: a run ended with a map that is not the identity, assigned once.
C10_Witness ==
    /\ pc = "done"
    /\ map_writes = 1
    /\ \E i \in Pixels : map_x[i] # NaN /\ map_x[i] # PixelX(i, width) * Sub

====
